---- MODULE Spec2Model ----
(***************************************************************************)
(* EDFL hallucination-risk validation of nawazia/lock_in_hack:             *)
(*   config/hallbayes_validator.py      EDFLValidator (facade)             *)
(*   config/edfl_aligned_validator.py   AlignedEDFLValidator               *)
(*   config/bedrock_hallbayes_adapter.py BedrockHallbayesAdapter           *)
(*   config/BedrockProxyLLM.py          BedrockProxyLLM                    *)
(*                                                                         *)
(* Probabilities are exact rationals [num, den]; information quantities    *)
(* are integers in units of 1e-4 nat; risk bounds are in permille.         *)
(* The hallbayes toolkit (delta_bar_from_probs, bits_to_trust, isr,        *)
(* roh_upper_bound, q_bar, q_lo, _choices_to_decisions, OpenAIPlanner) is  *)
(* not among the source files and is modelled from the specification.      *)
(***************************************************************************)
EXTENDS Integers, Sequences, FiniteSets, TLC

\* ------------------------------------------------------------------ bounds
\* largest n_samples a caller passes to validate_evidence_based / closed_book
MaxN == 2
\* largest m (skeleton count) a caller passes
MaxM == 2
\* largest number of extracted items handed to validate_extraction_batch
MaxItems == 1
\* m of the calls that run concurrently (each with n_samples = 1)
ConcM == 1
\* number of calls one caller makes in a row on one validator
MaxCalls == 2
\* largest number of flights the LLM's JSON array yields
MaxFlights == 2
\* number of queries of one conversation with the orchestrator
MaxTurns == 2
\* resolution of the grid on which the inverse-KL of the risk bound is searched
RohGrid == 20

\* ------------------------------------------------------- program constants
\* n_samples: int = 3
DefaultN == 3
\* m: int = 4
DefaultM == 4
\* h_star: float = 0.05, as the fraction HStarNum / HStarDen
HStarNum == 1
HStarDen == 20
\* B=12.0 nats, in units of 1e-4 nat
BClip == 120000
\* the decision margin 0.2, in units of 1e-4 nat
Margin == 2000
\* isr_val >= 1.0, in thousandths
IsrThreshold == 1000
\* max_tokens=32 passed to multi_choice
DecisionMaxTokens == 32
\* BedrockProxyLLM.max_tokens: int = 1024
ProxyMaxTokens == 1024

\* ---------------------------------------------------- fixed-point helpers
Rat(a, b) == [num |-> a, den |-> b]
RatLeq(x, y) == x.num * y.den <= y.num * x.den
RatMax(x, y) == IF RatLeq(x, y) THEN y ELSE x
RatOneMinus(x) == Rat(x.den - x.num, x.den)
Min2(a, b) == IF a <= b THEN a ELSE b
Max2(a, b) == IF a >= b THEN a ELSE b

\* 10000 * ln(k) for k = 1..40, rounded
LnTab ==
  << 0, 6931, 10986, 13863, 16094, 17918, 19459, 20794, 21972, 23026,
     23979, 24849, 25649, 26391, 27081, 27726, 28332, 28904, 29444, 29957,
     30445, 30910, 31355, 31781, 32189, 32581, 32958, 33322, 33673, 34012,
     34340, 34657, 34965, 35264, 35553, 35835, 36109, 36376, 36636, 36889 >>
\* 10000 * ln(1e-12): probabilities are clipped to [1e-12, 1 - 1e-12] before a log
LnEps == 0 - 276310
\* 10000 * ln of a probability given as a rational, after the clipping
LnRat(x) ==
  IF x.num <= 0 THEN LnEps
  ELSE IF x.num >= x.den THEN 0
  ELSE LnTab[x.num] - LnTab[x.den]

RECURSIVE SumSeq(_)
SumSeq(s) == IF s = <<>> THEN 0 ELSE Head(s) + SumSeq(Tail(s))

\* KL(Ber(p) || Ber(q)) in units of 1e-4 nat
KLBern(p, q) ==
  ( p.num * (LnRat(p) - LnRat(q))
    + (p.den - p.num) * (LnRat(RatOneMinus(p)) - LnRat(RatOneMinus(q))) ) \div p.den

\* ------------------------------------------- hallbayes toolkit (from spec)
\* _choices_to_decisions: a completion is ANSWER only when it matches the accept
\* pattern; anything else (refusal, error text) is DECLINE
Classify(text) == IF text = "answer" THEN "answer" ELSE "refuse"
choices_to_decisions(choices) == [i \in 1..Len(choices) |-> Classify(choices[i])]

\* q_bar: mean of the per-skeleton rates (all rates share one denominator)
q_bar(q_list) ==
  Rat(SumSeq([i \in 1..Len(q_list) |-> q_list[i].num]), q_list[1].den * Len(q_list))

\* q_lo: minimum of the per-skeleton rates
q_lo_func(q_list) ==
  CHOOSE x \in {q_list[i] : i \in 1..Len(q_list)} :
    \A j \in 1..Len(q_list) : RatLeq(x, q_list[j])

\* delta_bar_from_probs, clip_mode "one-sided": mean over the skeletons of
\* log P - log S_k clipped to [0, B]
delta_bar_from_probs(P, S_list) ==
  SumSeq([i \in 1..Len(S_list) |->
            Max2(0, Min2(BClip, LnRat(P) - LnRat(S_list[i])))]) \div Len(S_list)

\* bits_to_trust: KL(Ber(1 - h*) || Ber(q_lo))
bits_to_trust(q_cons) == KLBern(Rat(HStarDen - HStarNum, HStarDen), q_cons)

\* isr: delta_bar / B2T, in thousandths
isr(dbar, b2t) ==
  IF b2t <= 0 THEN (IF dbar > 0 THEN 1000 * BClip ELSE 0)
  ELSE (1000 * dbar) \div b2t

\* p_max: the largest p >= q with KL(Ber(p) || Ber(q)) <= delta_bar, in permille,
\* searched on a grid of RohGrid steps
p_max_edfl(dbar, q) ==
  LET onGrid == { i \in 0..RohGrid :
                    /\ RatLeq(q, Rat(i, RohGrid))
                    /\ KLBern(Rat(i, RohGrid), q) <= dbar }
      cands == { (1000 * q.num) \div q.den } \cup { (1000 * i) \div RohGrid : i \in onGrid }
  IN  CHOOSE x \in cands : \A y \in cands : y <= x

\* roh_upper_bound: 1 - p_max, in permille
roh_upper_bound(dbar, q_avg) == 1000 - p_max_edfl(dbar, q_avg)

\* ----------------------------------------------------------------- state
VARIABLES
  validator,       \* the validator object the caller holds (fields set by __init__)
  net,             \* the backend's reachability during the run: "up", "down", "flaky"
  threads,         \* the caller threads that issue validation calls
  max_tokens,      \* bedrock_llm.max_tokens, the wrapped LLM's shared setting
  aligned_metrics, \* AlignedEDFLValidator._last_detailed_metrics
  edfl_metrics,    \* EDFLValidator._last_detailed_metrics
  run,             \* TravelOrchestrator: the graph's state dict and the node it is at
  th               \* per thread: position and locals of its validation call

vars == <<validator, net, threads, max_tokens, aligned_metrics, edfl_metrics, run, th>>

ThreadIds == {1, 2}
Texts == {"answer", "refuse", "error"}
NoRat == Rat(0, 1)
NoMetrics ==
  [set |-> FALSE, delta_bar |-> 0, b2t |-> 0, isr |-> 0, p_answer |-> NoRat,
   q_avg |-> NoRat, q_lo |-> NoRat, roh |-> 0, n_samples |-> 0, m_skeletons |-> 0,
   y_label |-> "none", will_answer |-> FALSE]
NoResult ==
  [kind |-> "none", accept |-> FALSE, risk |-> 0, rationale |-> "none",
   reports |-> {}, valid_count |-> 0 - 1]
\* TravelPlanningState.travel_intent = None; the four required fields of a
\* TravelIntent are kept as present / absent
NoIntent ==
  [present |-> FALSE, budget |-> FALSE, timeframe |-> FALSE, locations |-> FALSE,
   interests |-> FALSE]
\* process_query, lines 303-320: the state dict of a new conversation
InitialState ==
  [user_query |-> 1, travel_intent |-> NoIntent, conversation_history |-> 0,
   flights |-> FALSE, hotels |-> FALSE, budget_options |-> FALSE,
   activities |-> FALSE, ranked_options |-> FALSE, final_itinerary |-> FALSE,
   completed_agents |-> <<>>,
   metadata |-> [intent_complete |-> "unset", written |-> {}],
   clarifying_questions |-> <<>>, needs_user_input |-> FALSE]
\* no query has been processed yet
NoRun ==
  [pc |-> "idle", turns |-> 0, state |-> InitialState, ran |-> <<>>,
   last |-> "none", before |-> InitialState]
Idle ==
  [pc |-> "idle", entry |-> "none", n_samples |-> 0, m |-> 0, items |-> 0,
   closed_book |-> FALSE, k |-> 0, choices |-> <<>>, response_text |-> "none",
   post_decisions |-> <<>>, y_label |-> "none", P_answer |-> NoRat,
   q_list |-> <<>>, S_list |-> <<>>, answers |-> <<>>,
   seeds |-> <<>>, sent |-> <<>>, failed |-> FALSE, args |-> <<>>,
   original_max_tokens |-> 0, payload_max_tokens |-> 0, requests |-> 0,
   metrics |-> NoMetrics, result |-> NoResult,
   calls |-> 0, read |-> NoMetrics,
   stage |-> "none", extracted |-> <<>>, flights |-> <<>>, returned |-> <<>>]

\* --------------------------------------------------------- construction
NoInner == [enable_validation |-> FALSE, planner |-> "unset"]

\* AlignedEDFLValidator.__init__: import_ok / planner_ok say whether
\* _ensure_hallbayes() and _OpenAIPlanner(...) succeed
AlignedInit(enable_validation, import_ok, planner_ok) ==
  IF ~enable_validation THEN [enable_validation |-> FALSE, planner |-> "None"]
  ELSE IF import_ok /\ planner_ok THEN [enable_validation |-> TRUE, planner |-> "planner"]
  ELSE [enable_validation |-> FALSE, planner |-> "None"]

\* EDFLValidator.__init__: with enable_validation=False it returns before
\* _aligned_validator is ever assigned
EDFLInit(enable_validation, use_aligned, import_ok, planner_ok) ==
  IF ~enable_validation
    THEN [enable_validation |-> FALSE, planner |-> "None",
          aligned_validator |-> "unset", inner |-> NoInner]
  ELSE IF ~import_ok
    THEN [enable_validation |-> FALSE, planner |-> "None",
          aligned_validator |-> "None", inner |-> NoInner]
  ELSE IF use_aligned
    THEN [enable_validation |-> TRUE, planner |-> "None",
          aligned_validator |-> "set", inner |-> AlignedInit(TRUE, import_ok, planner_ok)]
  ELSE IF planner_ok
    THEN [enable_validation |-> TRUE, planner |-> "planner",
          aligned_validator |-> "None", inner |-> NoInner]
  ELSE [enable_validation |-> FALSE, planner |-> "None",
        aligned_validator |-> "None", inner |-> NoInner]

\* the objects a caller can hold after construction
Validators ==
  { [cls |-> "Aligned", backend |-> b, enable_arg |-> e, init_ok |-> (io /\ po),
     enable_validation |-> AlignedInit(e, io, po).enable_validation,
     planner |-> AlignedInit(e, io, po).planner,
     aligned_validator |-> "unset", inner |-> NoInner] :
      b \in {"native", "bedrock"}, e \in BOOLEAN, io \in BOOLEAN, po \in BOOLEAN }
  \cup
  { [cls |-> "EDFL", backend |-> b, enable_arg |-> e, init_ok |-> (io /\ po),
     enable_validation |-> EDFLInit(e, ua, io, po).enable_validation,
     planner |-> EDFLInit(e, ua, io, po).planner,
     aligned_validator |-> EDFLInit(e, ua, io, po).aligned_validator,
     inner |-> EDFLInit(e, ua, io, po).inner] :
      b \in {"native", "bedrock"}, e \in BOOLEAN, ua \in BOOLEAN,
      io \in BOOLEAN, po \in BOOLEAN }

InitCommon ==
  /\ validator \in Validators
  /\ net \in {"up", "down", "flaky"}
  /\ max_tokens = ProxyMaxTokens
  /\ aligned_metrics = NoMetrics
  /\ edfl_metrics = NoMetrics
  /\ run = NoRun
  /\ th = [t \in ThreadIds |-> Idle]

\* one caller thread
Init == InitCommon /\ threads = {1}

\* two caller threads share one AlignedEDFLValidator over a reachable
\* BedrockProxyLLM
InitConc ==
  /\ InitCommon
  /\ threads = {1, 2}
  /\ validator.cls = "Aligned" /\ validator.backend = "bedrock"
  /\ validator.enable_validation
  /\ net = "up"

\* ------------------------------------------------------------ dispatch
\* AlignedEDFLValidator.validate_*: "not self.enable_validation or self.planner is None"
AlignedDispatch(a) ==
  IF ~a.enable_validation \/ a.planner = "None" THEN "disabled" ELSE "aligned"

\* EDFLValidator.validate_evidence_based / validate_closed_book up to the point
\* where sampling starts
EDFLDispatch(v) ==
  IF ~v.enable_validation THEN "disabled"
  ELSE IF v.aligned_validator = "unset" THEN "raise"
  ELSE IF v.aligned_validator = "set" THEN AlignedDispatch(v.inner)
  ELSE IF v.planner = "None" THEN "disabled"
  ELSE "planner"

\* (mutant) the emptiness of the list is looked at after the validator's state
BatchDispatchEmptyLast(v, items) ==
  IF v.cls = "Aligned" THEN (IF items = 0 THEN "no_items" ELSE AlignedDispatch(v))
  ELSE IF v.aligned_validator = "unset" THEN "raise"
  ELSE IF v.aligned_validator = "set"
    THEN (IF items = 0 THEN "no_items" ELSE AlignedDispatch(v.inner))
  ELSE IF items = 0 THEN "no_items"
  ELSE EDFLDispatch(v)

\* validate_extraction_batch up to the delegated evidence-based validation
BatchDispatch(v, items) ==
  IF items = 0 THEN "no_items"
  ELSE IF v.cls = "Aligned" THEN AlignedDispatch(v)
  ELSE IF v.aligned_validator = "unset" THEN "raise"
  ELSE IF v.aligned_validator = "set" THEN AlignedDispatch(v.inner)
  ELSE EDFLDispatch(v)

Dispatch(v, entry, items) ==
  IF entry = "batch" THEN BatchDispatch(v, items)
  ELSE IF v.cls = "Aligned" THEN AlignedDispatch(v)
  ELSE EDFLDispatch(v)

\* ------------------------------------------------------------- results
\* (mutant) the items are counted valid whatever the verdict
ValidCountAlways(entry, items, accept) ==
  IF entry = "batch" THEN items ELSE 0 - 1

\* valid_count = len(extracted_items) if should_use else 0
ValidCount(entry, items, accept) ==
  IF entry = "batch" THEN (IF accept THEN items ELSE 0) ELSE 0 - 1

Returned(entry, items, accept, risk, rationale, reports) ==
  [kind |-> "returned", accept |-> accept, risk |-> risk, rationale |-> rationale,
   reports |-> reports, valid_count |-> ValidCount(entry, items, accept)]

\* return True, 0.0, "validation_disabled"
DisabledResult(entry, items) ==
  Returned(entry, items, TRUE, 0, "validation_disabled", {})

\* return True, 0.0, "no_items_to_validate", 0
NoItemsResult ==
  [kind |-> "returned", accept |-> TRUE, risk |-> 0, rationale |-> "no_items_to_validate",
   reports |-> {}, valid_count |-> 0]

\* except Exception: return True, 1.0, f"validation_error: {e}"
ErrorResult(entry, items) ==
  Returned(entry, items, TRUE, 1000, "validation_error", {})

\* (mutant) the loop stops one completion short
LoopDoneEarly(choices, n) == Len(choices) >= n - 1

\* multi_choice of the adapter: "for i in range(n)" has run out
LoopDone(choices, n) == Len(choices) >= n

\* where a multi_choice call starts: the adapter's loop body never runs for n <= 0
EnterMultiChoice(v, n) ==
  IF v.backend = "bedrock" /\ LoopDone(<<>>, n) THEN "reduce" ELSE "multi_choice"

\* ----------------------------------------------------- code under src/
\* (mutant) the DECLINE samples are the ones counted
AnswerRateOfRefuse(decisions) ==
  Rat(Cardinality({i \in 1..Len(decisions) : decisions[i] # "answer"}),
      Max2(1, Len(decisions)))

\* sum(1 for d in decisions if d == "answer") / max(1, len(decisions))
AnswerRate(decisions) ==
  Rat(Cardinality({i \in 1..Len(decisions) : decisions[i] = "answer"}),
      Max2(1, Len(decisions)))

\* y_label = post_decisions[0] if post_decisions else "refuse"
YLabel(post_decisions) ==
  IF Len(post_decisions) > 0 THEN post_decisions[1] ELSE "refuse"

\* (mutant) only the "answer" samples that precede the first other one count
PAnswerUntilRefuse(post_decisions) ==
  Rat(Cardinality({i \in 1..Len(post_decisions) :
                     \A j \in 1..i : post_decisions[j] = "answer"}),
      Max2(1, Len(post_decisions)))

\* (mutant) the rate of whatever label was sampled first, not of "answer"
PAnswerOfYLabel(post_decisions) ==
  Rat(Cardinality({i \in 1..Len(post_decisions) :
                     post_decisions[i] = YLabel(post_decisions)}),
      Max2(1, Len(post_decisions)))

\* P_answer = sum(1 for d in post_decisions if d == "answer") / max(1, len(post_decisions))
PAnswer(post_decisions) == AnswerRate(post_decisions)

\* (mutant) the floor applied to each skeleton's rate before aggregation
QkRateFloored(dec_k) == RatMax(AnswerRate(dec_k), Rat(1, Len(dec_k) + 2))

\* qk = sum(1 for d in dec_k if d == "answer") / max(1, len(dec_k))
QkRate(dec_k) == AnswerRate(dec_k)

\* sk_answer = qk
SkAnswer(qk) == qk

\* (mutant) the floor 1/(n+1)
FloorRatePlusOne(n_samples) == Rat(1, n_samples + 1)

\* floor = 1.0 / (n_samples + 2)
FloorRate(n_samples) == Rat(1, n_samples + 2)

\* (mutant) the floor is not applied
QConsNoFloor(q_list, n_samples) == q_lo_func(q_list)

\* q_cons = max(q_lo_func(q_list), floor)
QCons(q_list, n_samples) == RatMax(q_lo_func(q_list), FloorRate(n_samples))

\* (mutant) the decision without the margin
WillAnswerNoMargin(isr_val, dbar, b2t) == isr_val >= IsrThreshold

\* will_answer = (isr_val >= 1.0) and (dbar >= b2t + 0.2)
WillAnswer(isr_val, dbar, b2t) ==
  (isr_val >= IsrThreshold) /\ (dbar >= b2t + Margin)

\* the fields the rationale f-string prints
RationaleFields(closed_book) ==
  {"delta_bar", "b2t", "isr", "p_answer", "q_lo", "roh"}
    \cup (IF closed_book THEN {} ELSE {"y_label"})

\* (mutant) the information gain measured on the "refuse" event
ComputeMetricsRefuseEvent(P_answer, S_list, q_list, y_label, n_samples, m) ==
  LET q_avg == q_bar(q_list)
      q_cons == QCons(q_list, n_samples)
      dbar == delta_bar_from_probs(RatOneMinus(P_answer),
                                   [i \in 1..Len(S_list) |-> RatOneMinus(S_list[i])])
      b2t == bits_to_trust(q_cons)
      isr_val == isr(dbar, b2t)
      roh == roh_upper_bound(dbar, q_avg)
  IN [set |-> TRUE, delta_bar |-> dbar, b2t |-> b2t, isr |-> isr_val,
      p_answer |-> P_answer, q_avg |-> q_avg, q_lo |-> q_cons, roh |-> roh,
      n_samples |-> n_samples, m_skeletons |-> m, y_label |-> y_label,
      will_answer |-> WillAnswer(isr_val, dbar, b2t)]

\* the rationale f-string: the values it prints, by field
Rationale(mt, closed_book) == [f \in RationaleFields(closed_book) |-> mt[f]]

\* lines 245-297 / 352-362: the metrics of one call from its signals
ComputeMetrics(P_answer, S_list, q_list, y_label, n_samples, m) ==
  LET q_avg == q_bar(q_list)
      q_cons == QCons(q_list, n_samples)
      dbar == delta_bar_from_probs(P_answer, S_list)
      b2t == bits_to_trust(q_cons)
      isr_val == isr(dbar, b2t)
      roh == roh_upper_bound(dbar, q_avg)
  IN [set |-> TRUE, delta_bar |-> dbar, b2t |-> b2t, isr |-> isr_val,
      p_answer |-> P_answer, q_avg |-> q_avg, q_lo |-> q_cons, roh |-> roh,
      n_samples |-> n_samples, m_skeletons |-> m, y_label |-> y_label,
      will_answer |-> WillAnswer(isr_val, dbar, b2t)]

\* (mutant) the information gain returned in the place of the risk bound
VerdictResultDbar(entry, items, mt, closed_book) ==
  Returned(entry, items, mt.will_answer, mt.delta_bar, "computed",
           RationaleFields(closed_book))

\* return will_answer, roh, rationale
VerdictResult(entry, items, mt, closed_book) ==
  Returned(entry, items, mt.will_answer, mt.roh, "computed", RationaleFields(closed_book))

\* EDFLValidator: "if hasattr(self._aligned_validator, '_last_detailed_metrics')"
Propagate(v, entry, am, em) ==
  IF v.cls = "EDFL" /\ entry \in {"evidence", "batch"} /\ am.set THEN am ELSE em

\* (mutant) the seeds start at 1
SeedsFromOne(m) == [i \in 1..m |-> i]

\* seeds = list(range(m))
Seeds(m) == [i \in 1..m |-> i - 1]

\* (mutant) one prompt more than there are skeletons is sampled
MoreSkeletonsOneExtra(k, seeds) == k <= Len(seeds)

\* "for sk in skeletons": one skeleton per seed, and some are still to be sampled
MoreSkeletons(k, seeds) == k < Len(seeds)

\* (mutant) a failed request comes back as an accepting completion
CallTextAnswerOnError(outcome) == IF outcome = "error" THEN "answer" ELSE outcome

\* BedrockProxyLLM._call: the text of a successful response, or the error text
\* that both except clauses return in the place of raising
CallText(outcome) == IF outcome = "error" THEN "error" ELSE outcome

\* how one request to the proxy can end: a completion ("answer", "refuse") or
\* an HTTP / connection failure ("error")
Responses ==
  CASE net = "up" -> {"answer", "refuse"}
    [] net = "down" -> {"error"}
    [] OTHER -> Texts

\* the (n_samples, m) a caller passes
Inputs ==
  IF Cardinality(threads) > 1 THEN {<<1, ConcM>>}
  ELSE (0..MaxN) \X (0..MaxM)

Entries == IF Cardinality(threads) > 1 THEN {"evidence"} ELSE {"evidence", "closed", "batch"}

\* (mutant) the caller's n_samples and m are dropped for the defaults
SamplingArgsDefaults(entry, n_samples, m) == <<DefaultN, DefaultM>>

\* the (n_samples, m) the estimator runs with: validate_evidence_based and
\* validate_closed_book pass on "n_samples=n_samples, m=m"; the delegated call of
\* validate_extraction_batch names neither and gets the defaults
SamplingArgs(entry, n_samples, m) ==
  IF entry = "batch" THEN <<DefaultN, DefaultM>> ELSE <<n_samples, m>>

\* --------------------------------------------------------------- actions
\* a caller invokes one of the three entry points: the facade's checks, the prompt
\* and the skeletons (seeds 0..m-1) up to the first multi_choice
CallWith(t, entries, inputs, counts) ==
  /\ t \in threads
  /\ th[t].pc = "idle"
  /\ \E entry \in entries, nm \in inputs, items \in counts :
       /\ entry = "batch" => nm = <<0, 0>>
       /\ entry # "batch" => items = 0
       /\ LET nn == SamplingArgs(entry, nm[1], nm[2])[1]
              mm == SamplingArgs(entry, nm[1], nm[2])[2]
              d == Dispatch(validator, entry, items)
              fresh == [Idle EXCEPT !.calls = th[t].calls, !.stage = th[t].stage,
                                    !.extracted = th[t].extracted,
                                    !.flights = th[t].flights]
              base == [fresh EXCEPT !.entry = entry, !.n_samples = nn, !.m = mm,
                                   !.items = items, !.closed_book = (entry = "closed"),
                                   !.args = IF entry = "batch" THEN <<>> ELSE nm]
          IN th' = [th EXCEPT ![t] =
               CASE d = "disabled" ->
                      [base EXCEPT !.pc = "done", !.result = DisabledResult(entry, items)]
                 [] d = "no_items" ->
                      [base EXCEPT !.pc = "done", !.result = NoItemsResult]
                 [] d = "raise" ->
                      [fresh EXCEPT !.pc = "raised", !.entry = entry, !.items = items,
                                    !.result = [NoResult EXCEPT !.kind = "raised"]]
                 [] d = "aligned" ->
                      [base EXCEPT !.pc = EnterMultiChoice(validator, nn),
                                   !.seeds = Seeds(mm),
                                   !.answers = <<0>>, !.sent = <<0>>]
                 [] OTHER ->
                      [base EXCEPT !.pc = "planner_run"]]
  /\ UNCHANGED <<run, validator, net, threads, max_tokens, aligned_metrics, edfl_metrics>>

Call(t) == CallWith(t, Entries, Inputs, 0..MaxItems)

\* a call of a caller that makes several in a row: validate_evidence_based or
\* validate_closed_book with n_samples = 1, m = 1
CallSeq(t) == CallWith(t, {"evidence", "closed"}, {<<1, 1>>}, {0})

\* the caller reads the validator's _last_detailed_metrics right after the call
\* returned: getattr(self.edfl_validator, '_last_detailed_metrics', None)
ReadMetrics(t) ==
  /\ th[t].pc = "done"
  /\ th' = [th EXCEPT ![t] =
              [@ EXCEPT !.pc = "read",
                        !.read = IF validator.cls = "EDFL" THEN edfl_metrics
                                 ELSE aligned_metrics]]
  /\ UNCHANGED <<run, validator, net, threads, max_tokens, aligned_metrics, edfl_metrics>>

\* the caller goes on to its next call on the same validator
NextCall(t) ==
  /\ th[t].pc = "read"
  /\ th[t].calls + 1 < MaxCalls
  /\ th' = [th EXCEPT ![t] = [Idle EXCEPT !.calls = th[t].calls + 1]]
  /\ UNCHANGED <<run, validator, net, threads, max_tokens, aligned_metrics, edfl_metrics>>

\* BedrockHallbayesAdapter.chat_create, lines 86-92: save bedrock_llm.max_tokens and
\* override it with the max_tokens keyword
ChatCreateBegin(t) ==
  /\ th[t].pc = "multi_choice"
  /\ validator.backend = "bedrock"
  /\ ~LoopDone(th[t].choices, th[t].n_samples)
  /\ th' = [th EXCEPT ![t] = [@ EXCEPT !.pc = "_call",
                                        !.original_max_tokens = max_tokens]]
  /\ max_tokens' = DecisionMaxTokens
  /\ UNCHANGED <<run, validator, net, threads, aligned_metrics, edfl_metrics>>

\* BedrockProxyLLM._call: one request whose payload carries self.max_tokens; an
\* HTTP or connection failure comes back as an error text
BedrockCall(t) ==
  /\ th[t].pc = "_call"
  /\ \E outcome \in Responses :
       LET text == CallText(outcome)
           at == th[t].k + 1
       IN th' = [th EXCEPT ![t] =
                [@ EXCEPT !.pc = "restore",
                          !.payload_max_tokens = max_tokens,
                          !.response_text = text,
                          !.requests = @ + 1,
                          !.sent = [@ EXCEPT ![at] = @ + 1],
                          !.failed = (@ \/ outcome = "error"),
                          !.answers = [@ EXCEPT ![at] =
                                         @ + (IF Classify(text) = "answer" THEN 1 ELSE 0)]]]
  /\ UNCHANGED <<run, validator, net, threads, max_tokens, aligned_metrics, edfl_metrics>>

\* chat_create, lines 95-101, and multi_choice, line 119: restore max_tokens and
\* append the choice
ChatCreateEnd(t) ==
  /\ th[t].pc = "restore"
  /\ max_tokens' = th[t].original_max_tokens
  /\ LET cs == Append(th[t].choices, th[t].response_text)
     IN th' = [th EXCEPT ![t] =
                 [@ EXCEPT !.choices = cs, !.response_text = "none",
                           !.pc = IF LoopDone(cs, th[t].n_samples)
                                  THEN "reduce" ELSE "multi_choice"]]
  /\ UNCHANGED <<run, validator, net, threads, aligned_metrics, edfl_metrics>>

\* multi_choice of a backend that implements it itself: n completions in one
\* call, or an exception that validate_* catches (lines 301-303 / 373-375)
NativeMultiChoice(t) ==
  /\ th[t].pc = "multi_choice"
  /\ validator.backend = "native"
  /\ \/ /\ net # "down"
        /\ \E cs \in [1..th[t].n_samples -> {"answer", "refuse"}] :
             th' = [th EXCEPT ![t] =
                      [@ EXCEPT !.pc = "reduce", !.choices = cs, !.requests = @ + 1,
                                !.answers = [@ EXCEPT ![th[t].k + 1] =
                                   Cardinality({i \in 1..Len(cs) : cs[i] = "answer"})]]]
        /\ UNCHANGED edfl_metrics
     \/ /\ net # "up"
        /\ th' = [th EXCEPT ![t] =
                    [@ EXCEPT !.pc = "done", !.requests = @ + 1,
                              !.result = ErrorResult(th[t].entry, th[t].items)]]
        /\ edfl_metrics' = Propagate(validator, th[t].entry, aligned_metrics, edfl_metrics)
  /\ UNCHANGED <<run, validator, net, threads, max_tokens, aligned_metrics>>

\* _estimate_signals_aligned after a multi_choice returned: lines 137-142 for the
\* full prompt, lines 151-158 for a skeleton, then the next skeleton
Reduce(t) ==
  /\ th[t].pc = "reduce"
  /\ LET decisions == choices_to_decisions(th[t].choices)
         qk == QkRate(decisions)
         more == MoreSkeletons(th[t].k, th[t].seeds)
         nextpc == IF more THEN EnterMultiChoice(validator, th[t].n_samples)
                   ELSE "aggregate"
     IN IF th[t].k = 0
        THEN th' = [th EXCEPT ![t] =
               [@ EXCEPT !.post_decisions = decisions,
                         !.y_label = YLabel(decisions),
                         !.P_answer = PAnswer(decisions),
                         !.choices = <<>>, !.k = IF more THEN 1 ELSE 0,
                         !.answers = IF more THEN Append(@, 0) ELSE @,
                         !.sent = IF more THEN Append(@, 0) ELSE @,
                         !.pc = nextpc]]
        ELSE th' = [th EXCEPT ![t] =
               [@ EXCEPT !.q_list = Append(@, qk),
                         !.S_list = Append(@, SkAnswer(qk)),
                         !.choices = <<>>, !.k = IF more THEN @ + 1 ELSE @,
                         !.answers = IF more THEN Append(@, 0) ELSE @,
                         !.sent = IF more THEN Append(@, 0) ELSE @,
                         !.pc = nextpc]]
  /\ UNCHANGED <<run, validator, net, threads, max_tokens, aligned_metrics, edfl_metrics>>

\* _estimate_signals_aligned lines 160-165, then validate_evidence_based lines
\* 245-303 / validate_closed_book lines 352-375, and the facade's return
Aggregate(t) ==
  /\ th[t].pc = "aggregate"
  /\ IF Len(th[t].q_list) = 0
     THEN \* sum(q_list)/len(q_list) raises; the except clause answers
          /\ th' = [th EXCEPT ![t] =
                      [@ EXCEPT !.pc = "done",
                                !.result = ErrorResult(th[t].entry, th[t].items)]]
          /\ UNCHANGED aligned_metrics
          /\ edfl_metrics' = Propagate(validator, th[t].entry, aligned_metrics, edfl_metrics)
     ELSE LET mt == ComputeMetrics(th[t].P_answer, th[t].S_list, th[t].q_list,
                                   th[t].y_label, th[t].n_samples, th[t].m)
              am == IF th[t].closed_book THEN aligned_metrics ELSE mt
          IN /\ th' = [th EXCEPT ![t] =
                         [@ EXCEPT !.pc = "done", !.metrics = mt,
                                   !.result = VerdictResult(th[t].entry, th[t].items,
                                                            mt, th[t].closed_book)]]
             /\ aligned_metrics' = am
             /\ edfl_metrics' = Propagate(validator, th[t].entry, am, edfl_metrics)
  /\ UNCHANGED <<run, validator, net, threads, max_tokens>>

\* OpenAIPlanner.run of the toolkit (the standard path of EDFLValidator, lines
\* 225-244 / 311-330), in one step: it samples the full prompt and the skeletons,
\* measures the information gain on the event of the first sampled label, and
\* decides with isr_threshold=1.0 and margin_extra_bits=0.2; whatever it raises,
\* the except clause answers
PlannerRun(t) ==
  /\ th[t].pc = "planner_run"
  /\ LET n == th[t].n_samples
         m == th[t].m
         raises == n <= 0 \/ m <= 0 \/ (validator.backend = "native" /\ net # "up")
         returns == n > 0 /\ m > 0 /\ (validator.backend = "bedrock" \/ net # "down")
         labels == IF net = "down" THEN {"refuse"} ELSE {"answer", "refuse"}
         counts == IF net = "down" THEN {0} ELSE 0..n
     IN \/ /\ raises
           /\ th' = [th EXCEPT ![t] =
                       [@ EXCEPT !.pc = "done",
                                 !.result = ErrorResult(th[t].entry, th[t].items)]]
        \/ /\ returns
           /\ \E post \in [1..n -> labels], cnt \in [1..m -> counts] :
                LET y == YLabel(post)
                    P_y == Rat(Cardinality({i \in 1..n : post[i] = y}), n)
                    q_list == [i \in 1..m |-> Rat(cnt[i], n)]
                    S_list == [i \in 1..m |->
                                 IF y = "answer" THEN q_list[i] ELSE RatOneMinus(q_list[i])]
                    mt == ComputeMetrics(P_y, S_list, q_list, y, n, m)
                IN th' = [th EXCEPT ![t] =
                       [@ EXCEPT !.pc = "done", !.post_decisions = post, !.y_label = y,
                                 !.P_answer = P_y, !.q_list = q_list, !.S_list = S_list,
                                 !.metrics = mt,
                                 !.result = VerdictResult(th[t].entry, th[t].items, mt,
                                                          th[t].closed_book)]]
  /\ UNCHANGED <<run, validator, net, threads, max_tokens, aligned_metrics, edfl_metrics>>

\* the caller's thread is interrupted while the call samples: the interrupt is no
\* Exception, so no except clause answers; chat_create's finally still runs
Cancel(t) ==
  /\ th[t].pc \in {"multi_choice", "_call", "restore", "reduce", "aggregate", "planner_run"}
  /\ th' = [th EXCEPT ![t] =
              [Idle EXCEPT !.pc = "cancelled", !.entry = th[t].entry,
                           !.items = th[t].items,
                           !.result = [NoResult EXCEPT !.kind = "cancelled"]]]
  /\ max_tokens' = IF th[t].pc \in {"_call", "restore"}
                   THEN th[t].original_max_tokens ELSE max_tokens
  /\ UNCHANGED <<run, validator, net, threads, aligned_metrics, edfl_metrics>>

\* ----------------------------------------------------------- FlightAgent
\* Flight.edfl_validation before validation: None
NoValidation ==
  [risk_of_hallucination |-> 0, validation_passed |-> FALSE, confidence |-> "None"]

\* the lists of Flight objects _parse_with_llm can build from the LLM's JSON array:
\* up to MaxFlights distinct entries, in the array's order
FlightLists ==
  { ids \in UNION { [1..k -> 1..MaxFlights] : k \in 0..MaxFlights } :
      \A i, j \in 1..Len(ids) : i # j => ids[i] # ids[j] }

\* "high" if risk_bound < 0.05 else ("medium" if risk_bound < 0.5 else "low")
Confidence(risk_bound) ==
  IF risk_bound < 50 THEN "high" ELSE IF risk_bound < 500 THEN "medium" ELSE "low"

AttachValidationBlockRejected(flights, should_use, risk_bound) ==
  IF ~should_use THEN <<>>
  ELSE [i \in 1..Len(flights) |->
          [flights[i] EXCEPT !.edfl_validation =
             [risk_of_hallucination |-> risk_bound, validation_passed |-> should_use,
              confidence |-> Confidence(risk_bound)]]]

\* _parse_with_llm, lines 253-259: the verdict is written on every flight; a
\* rejected list is flagged, not dropped
AttachValidation(flights, should_use, risk_bound) ==
  [i \in 1..Len(flights) |->
     [flights[i] EXCEPT !.edfl_validation =
        [risk_of_hallucination |-> risk_bound, validation_passed |-> should_use,
         confidence |-> Confidence(risk_bound)]]]

\* _parse_with_llm, lines 219-231: the Flight objects are created from the LLM's
\* JSON array
ParseFlights(t) ==
  /\ t \in threads
  /\ th[t].pc = "idle"
  /\ th[t].stage = "none"
  /\ \E ids \in FlightLists :
       th' = [th EXCEPT ![t] =
                [@ EXCEPT !.stage = "parsed", !.extracted = ids,
                          !.flights = [i \in 1..Len(ids) |->
                                         [id |-> ids[i], edfl_validation |-> NoValidation]]]]
  /\ UNCHANGED <<run, validator, net, threads, max_tokens, aligned_metrics, edfl_metrics>>

\* _parse_with_llm, lines 236-243: a non-empty list goes to
\* validate_extraction_batch
ValidateFlights(t) ==
  /\ th[t].stage = "parsed"
  /\ th[t].flights # <<>>
  /\ CallWith(t, {"batch"}, {<<0, 0>>}, {Len(th[t].flights)})

\* _parse_with_llm, lines 245-276 and 347: the verdict is attached when the
\* validator returned, the exception is logged when it raised, an empty list is
\* not validated; the list is returned in every case
ReturnFlights(t) ==
  /\ t \in threads
  /\ th[t].stage = "parsed"
  /\ \/ th[t].pc \in {"done", "raised"}
     \/ th[t].pc = "idle" /\ th[t].flights = <<>>
  /\ LET out == IF th[t].pc = "done"
                 THEN AttachValidation(th[t].flights, th[t].result.accept,
                                       th[t].result.risk)
                 ELSE th[t].flights
     IN th' = [th EXCEPT ![t] =
                 [@ EXCEPT !.stage = "returned", !.flights = out, !.returned = out]]
  /\ UNCHANGED <<run, validator, net, threads, max_tokens, aligned_metrics, edfl_metrics>>

\* ---------------------------------------------------- TravelOrchestrator
\* the TravelIntent objects extract_intent can return
Intents ==
  { [present |-> TRUE, budget |-> b, timeframe |-> tf, locations |-> l,
     interests |-> i] : b \in BOOLEAN, tf \in BOOLEAN, l \in BOOLEAN, i \in BOOLEAN }

\* extract_intent's except branch: TravelIntent(locations=[], interests=[], ...)
MinimalIntent ==
  [present |-> TRUE, budget |-> FALSE, timeframe |-> FALSE, locations |-> FALSE,
   interests |-> FALSE]

\* TravelIntent.is_complete
is_complete(intent) ==
  intent.budget /\ intent.timeframe /\ intent.locations /\ intent.interests

\* TravelIntent.get_missing_fields
get_missing_fields(intent) ==
  SelectSeq(<<"budget", "timeframe", "locations", "interests">>,
            LAMBDA f : ~intent[f])

\* generate_clarifying_questions: one question per missing required field (the
\* questions about travelers and hotel preferences only lengthen the list)
generate_clarifying_questions(intent) == get_missing_fields(intent)

\* extract_intent: what the LLM's JSON parses to, or on any exception the
\* existing intent, or a minimal one when there is none
extract_intent(existing_intent) ==
  Intents \cup {IF existing_intent.present THEN existing_intent ELSE MinimalIntent}

\* InterfaceAgent.run
InterfaceRun(state, intent) ==
  LET done == IF \E i \in 1..Len(state.completed_agents) :
                     state.completed_agents[i] = "interface"
              THEN state.completed_agents
              ELSE Append(state.completed_agents, "interface")
  IN IF is_complete(intent)
     THEN [state EXCEPT !.travel_intent = intent,
                        !.conversation_history = @ + 2,
                        !.needs_user_input = FALSE,
                        !.clarifying_questions = <<>>,
                        !.metadata = [@ EXCEPT !.intent_complete = "True"],
                        !.completed_agents = done]
     ELSE [state EXCEPT !.travel_intent = intent,
                        !.conversation_history = @ + 2,
                        !.needs_user_input = TRUE,
                        !.clarifying_questions = generate_clarifying_questions(intent),
                        !.metadata = [@ EXCEPT !.intent_complete = "False"],
                        !.completed_agents = done]

\* the run method of the planning agents: each returns early, with only its name
\* appended, when what it works on is missing; found says whether its search
\* or matching produced anything
AgentRun(agent, state, found) ==
  LET skipped == [state EXCEPT !.completed_agents = Append(@, agent)]
      wrote == [skipped EXCEPT !.metadata = [@ EXCEPT !.written = @ \cup {agent}]]
  IN CASE agent = "flight" ->
            IF ~state.travel_intent.present THEN skipped
            ELSE [wrote EXCEPT !.flights = found]
       [] agent = "hotel" ->
            IF ~state.travel_intent.present THEN skipped
            ELSE [wrote EXCEPT !.hotels = found]
       [] agent = "budget" ->
            IF ~state.travel_intent.present \/ ~state.flights \/ ~state.hotels
            THEN skipped
            ELSE [wrote EXCEPT !.budget_options = found]
       [] agent = "activities" ->
            IF ~state.travel_intent.present THEN skipped
            ELSE [wrote EXCEPT !.activities = found]
       [] agent = "ranking" ->
            IF ~state.travel_intent.present \/ ~state.budget_options THEN skipped
            ELSE [wrote EXCEPT !.ranked_options = found]
       [] agent = "itinerary" ->
            IF ~state.travel_intent.present \/ ~state.ranked_options THEN skipped
            ELSE [wrote EXCEPT !.final_itinerary = TRUE]
       [] OTHER ->
            IF ~state.final_itinerary \/ ~state.travel_intent.present
               \/ ~state.travel_intent.locations
            THEN skipped
            ELSE wrote

\* the except branch of every node: the agent's name is appended to
\* completed_agents and the state dict goes on
NodeRaised(state, agent) ==
  [state EXCEPT !.completed_agents = Append(@, agent)]

\* _route_after_interface
RouteAfterInterface(state) ==
  IF state.needs_user_input THEN "END"
  ELSE IF state.metadata.intent_complete = "True" THEN "flights"
  ELSE IF Len(state.clarifying_questions) > 0 THEN "END"
  ELSE "flights"

NextNodeSkipsActivities(node) ==
  CASE node = "flights" -> "hotels"
    [] node = "hotels" -> "budget"
    [] node = "budget" -> "ranking"
    [] node = "activities" -> "ranking"
    [] node = "ranking" -> "itinerary"
    [] node = "itinerary" -> "audit"
    [] OTHER -> "END"

\* _build_graph: the edges after the interface node
NextNode(node) ==
  CASE node = "flights" -> "hotels"
    [] node = "hotels" -> "budget"
    [] node = "budget" -> "activities"
    [] node = "activities" -> "ranking"
    [] node = "ranking" -> "itinerary"
    [] node = "itinerary" -> "audit"
    [] OTHER -> "END"

\* TravelOrchestrator.is_waiting_for_input
is_waiting_for_input(state) ==
  state.needs_user_input \/ Len(state.clarifying_questions) > 0

\* process_query: a new conversation, or the answer to the questions of the
\* run before (existing_state, needs_user_input reset), up to graph.invoke's
\* entry point
ProcessQuery ==
  /\ \/ /\ run.pc = "idle"
        /\ run' = [NoRun EXCEPT !.pc = "interface", !.turns = 1]
     \/ /\ run.pc = "END"
        /\ is_waiting_for_input(run.state)
        /\ run.turns < MaxTurns
        /\ run' = [run EXCEPT !.pc = "interface", !.turns = @ + 1,
                              !.state = [@ EXCEPT !.user_query = run.turns + 1,
                                                  !.needs_user_input = FALSE],
                              !.ran = <<>>, !.last = "none",
                              !.before = run.state]
  /\ UNCHANGED <<validator, net, threads, max_tokens, aligned_metrics, edfl_metrics, th>>

\* _interface_node: InterfaceAgent.run on the state, or the except branch
InterfaceNode ==
  /\ run.pc = "interface"
  /\ \/ \E intent \in extract_intent(run.state.travel_intent) :
          run' = [run EXCEPT !.pc = "route", !.ran = Append(@, "interface"),
                             !.last = "ok", !.before = run.state,
                             !.state = InterfaceRun(run.state, intent)]
     \/ run' = [run EXCEPT !.pc = "route", !.ran = Append(@, "interface"),
                           !.last = "raised", !.before = run.state,
                           !.state = NodeRaised(run.state, "interface")]
  /\ UNCHANGED <<validator, net, threads, max_tokens, aligned_metrics, edfl_metrics, th>>

\* the conditional edge after the interface node
Route ==
  /\ run.pc = "route"
  /\ run' = [run EXCEPT !.pc = RouteAfterInterface(run.state)]
  /\ UNCHANGED <<validator, net, threads, max_tokens, aligned_metrics, edfl_metrics, th>>

\* a planning node: the agent's run on the state, or the except branch; then the
\* node's outgoing edge
PlanningNode(node, agent) ==
  /\ run.pc = node
  /\ \/ \E found \in BOOLEAN :
          run' = [run EXCEPT !.pc = NextNode(node), !.ran = Append(@, node),
                             !.last = "ok", !.before = run.state,
                             !.state = AgentRun(agent, run.state, found)]
     \/ run' = [run EXCEPT !.pc = NextNode(node), !.ran = Append(@, node),
                           !.last = "raised", !.before = run.state,
                           !.state = NodeRaised(run.state, agent)]
  /\ UNCHANGED <<validator, net, threads, max_tokens, aligned_metrics, edfl_metrics, th>>

FlightNode == PlanningNode("flights", "flight")
HotelNode == PlanningNode("hotels", "hotel")
BudgetNode == PlanningNode("budget", "budget")
ActivitiesNode == PlanningNode("activities", "activities")
RankingNode == PlanningNode("ranking", "ranking")
ItineraryNode == PlanningNode("itinerary", "itinerary")
AuditNode == PlanningNode("audit", "audit")

Next ==
  \E t \in ThreadIds :
    \/ Call(t)
    \/ ChatCreateBegin(t)
    \/ BedrockCall(t)
    \/ ChatCreateEnd(t)
    \/ NativeMultiChoice(t)
    \/ Reduce(t)
    \/ Aggregate(t)
    \/ PlannerRun(t)
    \/ Cancel(t)

Spec == Init /\ [][Next]_vars

\* the steps of calls on an AlignedEDFLValidator over the adapter
NextConc ==
  \E t \in ThreadIds :
    \/ Call(t)
    \/ ChatCreateBegin(t)
    \/ BedrockCall(t)
    \/ ChatCreateEnd(t)
    \/ Reduce(t)
    \/ Aggregate(t)
    \/ Cancel(t)

SpecConc == InitConc /\ [][NextConc]_vars

\* one caller makes MaxCalls calls in a row on one initialised validator (an
\* AlignedEDFLValidator, or an EDFLValidator holding one) over a reachable
\* BedrockProxyLLM, and reads _last_detailed_metrics after each
InitSeq ==
  /\ InitCommon
  /\ threads = {1}
  /\ validator.backend = "bedrock"
  /\ validator.enable_validation
  /\ validator.cls = "EDFL" => (validator.aligned_validator = "set"
                                 /\ validator.inner.enable_validation)
  /\ net = "up"

NextSeq ==
  \E t \in ThreadIds :
    \/ CallSeq(t)
    \/ ChatCreateBegin(t)
    \/ BedrockCall(t)
    \/ ChatCreateEnd(t)
    \/ Reduce(t)
    \/ Aggregate(t)
    \/ ReadMetrics(t)
    \/ NextCall(t)

SpecSeq == InitSeq /\ [][NextSeq]_vars

\* FlightAgent._parse_with_llm over the EDFLValidator the agent constructs
\* (use_aligned is left at its default True); the backend is reachable, or
\* unreachable, for the whole call
InitAgent ==
  /\ InitCommon
  /\ threads = {1}
  /\ validator.cls = "EDFL"
  /\ validator.planner # "planner"
  /\ net \in {"up", "down"}

NextAgent ==
  \E t \in ThreadIds :
    \/ ParseFlights(t)
    \/ ValidateFlights(t)
    \/ ChatCreateBegin(t)
    \/ BedrockCall(t)
    \/ ChatCreateEnd(t)
    \/ NativeMultiChoice(t)
    \/ Reduce(t)
    \/ Aggregate(t)
    \/ ReturnFlights(t)

SpecAgent == InitAgent /\ [][NextAgent]_vars

\* one conversation with the TravelOrchestrator: up to MaxTurns queries, each
\* later one answering the questions of the run before
InitOrch ==
  /\ InitCommon
  /\ threads = {1}
  /\ validator.cls = "EDFL" /\ validator.backend = "bedrock"
  /\ validator.enable_arg /\ validator.init_ok
  /\ validator.aligned_validator = "set"
  /\ net = "up"

NextOrch ==
  \/ ProcessQuery
  \/ InterfaceNode
  \/ Route
  \/ FlightNode
  \/ HotelNode
  \/ BudgetNode
  \/ ActivitiesNode
  \/ RankingNode
  \/ ItineraryNode
  \/ AuditNode

SpecOrch == InitOrch /\ [][NextOrch]_vars

\* ================================================================ claims
Done(t) == th[t].pc = "done"
Computed(t) == th[t].pc = "done" /\ th[t].result.rationale = "computed"
\* the verdict comes from the toolkit's planner, not from the aligned estimator
UsesPlanner == validator.cls = "EDFL" /\ validator.aligned_validator = "None"
\* the denominator of every rate of a call
Den(t) == Max2(1, th[t].n_samples)
\* 1/(n+2), written out
Floor(t) == Rat(1, th[t].n_samples + 2)
IsProb(x) == 0 <= x.num /\ x.num <= x.den /\ x.den > 0

\* C1: a call that computes a verdict returns accept = True exactly when
\* ISR >= 1.0 and the information gain is at least B2T + 0.2.
C1_DecisionRule ==
  \A t \in ThreadIds :
    Computed(t) =>
      (th[t].result.accept <=>
         (th[t].metrics.isr >= 1000 /\ th[t].metrics.delta_bar >= th[t].metrics.b2t + 2000))

\* a computed verdict that fails only the margin: ISR >= 1 and yet not accepted
C1_Witness ==
  /\ Computed(1) /\ ~UsesPlanner
  /\ th[1].metrics.isr >= 1000
  /\ ~th[1].result.accept

\* C2: when every backend request of a call fails, the call returns
\* (True, 1.0, "validation_error: ...") whatever the backend kind.
C2_UnreachableFailsOpen ==
  \A t \in ThreadIds :
    (Done(t) /\ net = "down" /\ th[t].requests > 0) =>
      /\ th[t].result.accept
      /\ th[t].result.risk = 1000
      /\ th[t].result.rationale = "validation_error"

\* C3: no exception escapes an entry point, in any validator state.
C3_NoExceptionEscapes == \A t \in ThreadIds : th[t].pc # "raised"

\* C4: every returned risk_bound lies in [0, 1], on every return path.
C4_RiskInUnitInterval ==
  \A t \in ThreadIds :
    th[t].result.kind = "returned" =>
      (0 <= th[t].result.risk /\ th[t].result.risk <= 1000)

\* a computed risk bound strictly inside the interval
C4_Witness ==
  /\ Computed(1) /\ ~UsesPlanner
  /\ 0 < th[1].result.risk /\ th[1].result.risk < 1000

C6_QloFloor ==
  \A t \in ThreadIds :
    Computed(t) =>
      /\ RatLeq(Floor(t), th[t].metrics.q_lo)
      /\ th[t].metrics.b2t = bits_to_trust(th[t].metrics.q_lo)

\* every sample of every skeleton was DECLINE
C6_Witness ==
  /\ Computed(1) /\ ~UsesPlanner /\ th[1].n_samples >= 1 /\ th[1].m >= 1
  /\ \A k \in 1..Len(th[1].q_list) : th[1].q_list[k].num = 0

\* C7: S_list[k] and q_list[k] are both the skeleton's fraction of "answer"
\* samples, and P_answer is the full prompt's fraction of "answer" samples
\* whatever the first sampled label is.
C7_SameEvent ==
  \A t \in ThreadIds :
    (Computed(t) /\ ~UsesPlanner) =>
      /\ th[t].P_answer = Rat(th[t].answers[1], Den(t))
      /\ th[t].metrics.p_answer = Rat(th[t].answers[1], Den(t))
      /\ \A k \in 1..th[t].m :
           /\ th[t].S_list[k] = th[t].q_list[k]
           /\ th[t].q_list[k] = Rat(th[t].answers[k + 1], Den(t))

\* the first sampled label is "refuse" and yet some samples are "answer"
C7_Witness ==
  /\ Computed(1) /\ ~UsesPlanner
  /\ th[1].y_label = "refuse"
  /\ th[1].P_answer.num > 0
  /\ \E k \in 1..th[1].m : th[1].q_list[k].num > 0

C9_NoPartialVerdict ==
  \A t \in ThreadIds :
    /\ (Computed(t) /\ ~UsesPlanner) =>
         /\ Len(th[t].post_decisions) = Max2(0, th[t].n_samples)
         /\ Len(th[t].q_list) = th[t].m
         /\ Len(th[t].answers) = th[t].m + 1
         /\ th[t].requests =
              IF validator.backend = "bedrock"
              THEN Max2(0, th[t].n_samples) * (1 + th[t].m) ELSE 1 + th[t].m
    /\ th[t].pc = "cancelled" =>
         (th[t].result.kind = "cancelled" /\ th[t].result.rationale = "none")
    /\ (Done(t) /\ th[t].result.rationale = "validation_error") =>
         (~th[t].metrics.set /\ th[t].result.accept /\ th[t].result.risk = 1000)

\* sampling stopped by an exception after some prompts had been sampled
C9_Witness ==
  /\ Done(1) /\ th[1].result.rationale = "validation_error"
  /\ Len(th[1].post_decisions) > 0
  /\ Len(th[1].q_list) > 0 /\ Len(th[1].q_list) < th[1].m

\* C10: after two interleaved validation calls have finished, the shared
\* backend's max_tokens holds its pre-call value.
C10_MaxTokensRestored ==
  (\A t \in threads : th[t].pc = "done") =>
     max_tokens = ProxyMaxTokens

\* the call samples through BedrockHallbayesAdapter, one request per completion
OverAdapter(t) == validator.backend = "bedrock" /\ ~UsesPlanner /\ th[t].sent # <<>>
\* the completions of the prompt being sampled that are error texts
ErrorTexts(t) == Cardinality({i \in 1..Len(th[t].choices) : th[t].choices[i] = "error"})

\* C11: over the adapter, a failed single-completion request (any number of a
\* prompt's n, up to all n) is counted as DECLINE: the prompt still yields n
\* classified samples, no request is repeated, and a call with n >= 1, m >= 1
\* returns a computed verdict.
C11_FailedSampleIsDecline ==
  \A t \in ThreadIds :
    (OverAdapter(t) /\ th[t].m >= 1) =>
      /\ th[t].pc = "reduce" => Len(th[t].choices) = th[t].n_samples
      /\ ErrorTexts(t) > 0 => th[t].failed
      /\ th[t].answers[th[t].k + 1] + ErrorTexts(t) <= th[t].sent[th[t].k + 1]
      /\ \A k \in 1..Len(th[t].sent) : th[t].sent[k] <= th[t].n_samples
      /\ (Done(t) /\ th[t].failed) =>
           /\ Computed(t)
           /\ Len(th[t].post_decisions) = th[t].n_samples
           /\ th[t].P_answer = Rat(th[t].answers[1], th[t].n_samples)
           /\ \A k \in 1..th[t].m :
                /\ th[t].sent[k + 1] = th[t].n_samples
                /\ th[t].q_list[k] = Rat(th[t].answers[k + 1], th[t].n_samples)
           /\ net = "down" =>
                (th[t].P_answer.num = 0 /\ \A k \in 1..th[t].m : th[t].q_list[k].num = 0)

\* a computed verdict of a call in which some requests failed and others
\* succeeded with ANSWER, on the original prompt and on a skeleton
C11_Witness ==
  /\ Computed(1) /\ OverAdapter(1) /\ th[1].failed
  /\ th[1].n_samples = 2 /\ th[1].m = 2
  /\ th[1].answers = <<1, 0, 1>>

\* C12: a validate_evidence_based / validate_closed_book call over the adapter
\* that computes a verdict has issued exactly n * (1 + m) requests: n for the
\* original prompt, then n for each of the m skeletons.
C12_RequestCount ==
  \A t \in ThreadIds :
    (OverAdapter(t) /\ th[t].entry \in {"evidence", "closed"}) =>
      /\ Computed(t) =>
           /\ th[t].requests = th[t].n_samples * (1 + th[t].m)
           /\ th[t].sent = [k \in 1..(1 + th[t].m) |-> th[t].n_samples]
      \* the prompts are sampled one after the other, the original first
      /\ \A k \in 1..Len(th[t].sent) :
           k < Len(th[t].sent) => th[t].sent[k] = th[t].n_samples

\* a computed verdict after 2 * (1 + 2) requests
C12_Witness ==
  /\ Computed(1) /\ OverAdapter(1) /\ th[1].entry = "closed"
  /\ th[1].n_samples = 2 /\ th[1].m = 2
  /\ th[1].requests = 6

\* the completions of the prompt being sampled that match the accept pattern
AnswerTexts(t) == Cardinality({i \in 1..Len(th[t].choices) : th[t].choices[i] = "answer"})

\* C13: P_answer is the number of full-prompt samples classified ANSWER over n
\* and each q_k is the number of that skeleton's samples classified ANSWER
\* over n; a completion with any other text (refusal, error text) is DECLINE
\* and is never counted as ANSWER.
C13_RatesCountAnswerOnly ==
  \A t \in ThreadIds :
    (~UsesPlanner /\ th[t].n_samples >= 1) =>
      /\ th[t].pc = "reduce" =>
           /\ AnswerRate(choices_to_decisions(th[t].choices)) =
                Rat(AnswerTexts(t), th[t].n_samples)
           /\ AnswerTexts(t) = th[t].answers[th[t].k + 1]
      /\ \A i \in 1..Len(th[t].post_decisions) :
           th[t].post_decisions[i] \in {"answer", "refuse"}
      /\ Computed(t) =>
           /\ th[t].P_answer =
                Rat(Cardinality({i \in 1..th[t].n_samples :
                                   th[t].post_decisions[i] = "answer"}), th[t].n_samples)
           /\ th[t].P_answer = Rat(th[t].answers[1], th[t].n_samples)
           /\ \A k \in 1..th[t].m :
                th[t].q_list[k] = Rat(th[t].answers[k + 1], th[t].n_samples)

\* a computed verdict whose samples were refusals, error texts and ANSWERs
C13_Witness ==
  /\ Computed(1) /\ ~UsesPlanner /\ th[1].failed
  /\ th[1].post_decisions = <<"refuse", "answer">>
  /\ th[1].q_list = <<Rat(2, 2), Rat(0, 2)>>

\* (accept, risk_bound, rationale) of a result, with what the rationale reports
Triple(x) == <<x.accept, x.risk, x.rationale, x.reports>>

\* C14: validate_extraction_batch on a non-empty list returns the (accept,
\* risk_bound, rationale) of its one delegated evidence-based validation, with
\* valid_count = len(items) when accept is True and 0 when it is False; no
\* other valid_count is returned.
C14_BatchAtomic ==
  \A t \in ThreadIds :
    (Done(t) /\ th[t].entry = "batch" /\ th[t].items > 0) =>
      /\ th[t].result.kind = "returned"
      /\ IF th[t].metrics.set
         THEN Triple(th[t].result) =
                Triple(VerdictResult("evidence", 0, th[t].metrics, FALSE))
         ELSE Triple(th[t].result) \in
                {Triple(DisabledResult("evidence", 0)), Triple(ErrorResult("evidence", 0))}
      /\ th[t].result.valid_count = (IF th[t].result.accept THEN th[t].items ELSE 0)
      /\ th[t].result.valid_count \in {0, th[t].items}
      \* one delegated validation, with the default n_samples and m
      /\ th[t].n_samples = DefaultN /\ th[t].m = DefaultM
      /\ (OverAdapter(t) /\ Computed(t)) => th[t].requests = DefaultN * (1 + DefaultM)

\* a batch whose delegated validation computed a rejecting verdict
C14_Witness ==
  /\ Computed(1) /\ th[1].entry = "batch" /\ th[1].items > 0
  /\ ~th[1].result.accept /\ th[1].result.valid_count = 0
  /\ th[1].result.risk > 0

\* C15: validate_extraction_batch with an empty list returns
\* (True, 0.0, "no_items_to_validate", 0) without a backend call, whatever the
\* validator's state (enabled, disabled, initialisation failed).
C15_EmptyBatch ==
  \A t \in ThreadIds :
    (th[t].entry = "batch" /\ th[t].items = 0) =>
      /\ Done(t)
      /\ th[t].result.kind = "returned"
      /\ th[t].result.accept
      /\ th[t].result.risk = 0
      /\ th[t].result.rationale = "no_items_to_validate"
      /\ th[t].result.valid_count = 0
      /\ th[t].requests = 0 /\ th[t].sent = <<>>
      /\ max_tokens = ProxyMaxTokens

\* the empty list handed to an EDFLValidator built with enable_validation=False,
\* the validator on which a non-empty list raises
C15_Witness ==
  /\ Done(1) /\ th[1].entry = "batch" /\ th[1].items = 0
  /\ validator.cls = "EDFL" /\ validator.aligned_validator = "unset"
  /\ th[1].result.rationale = "no_items_to_validate"

\* what a call was given and what its backend returned: the entry point, n, m,
\* the classified completions of the full prompt and the ANSWER count of each
\* prompt
SameRun(t, u) ==
  /\ th[t].entry = th[u].entry
  /\ th[t].n_samples = th[u].n_samples /\ th[t].m = th[u].m
  /\ th[t].post_decisions = th[u].post_decisions
  /\ th[t].answers = th[u].answers

C17_InvalidConfigRejected ==
  \A t \in ThreadIds :
    ( /\ th[t].entry \in {"evidence", "closed"}
      /\ validator.backend = "bedrock" /\ ~UsesPlanner
      /\ (th[t].n_samples <= 0 \/ th[t].m <= 0) ) =>
        /\ th[t].requests = 0
        /\ ~Computed(t)

\* a verdict computed by the aligned estimator from n >= 1 samples of the prompt
\* and of each of m >= 1 skeletons
Sampled(t) ==
  Computed(t) /\ ~UsesPlanner /\ th[t].n_samples >= 1 /\ th[t].m >= 1
\* every sample of the full prompt was ANSWER
AllAnswerOnPrompt(t) == th[t].answers[1] = th[t].n_samples
\* every sample of every skeleton was DECLINE / was ANSWER
AllDeclineOnSkeletons(t) == \A k \in 1..th[t].m : th[t].answers[k + 1] = 0
AllAnswerOnSkeletons(t) == \A k \in 1..th[t].m : th[t].answers[k + 1] = th[t].n_samples

OneMoreAnswer(post_decisions) ==
  { [post_decisions EXCEPT ![i] = "answer"] :
      i \in {j \in 1..Len(post_decisions) : post_decisions[j] # "answer"} }

\* C20: with the samples of every skeleton held fixed, one more ANSWER sample
\* on the full prompt never lowers the information gain (one-sided clipping at
\* B = 12 nats), and the gain stays within [0, B].
C20_DeltaBarMonotone ==
  \A t \in ThreadIds :
    Sampled(t) =>
      /\ 0 <= th[t].metrics.delta_bar /\ th[t].metrics.delta_bar <= BClip
      /\ \A pd \in OneMoreAnswer(th[t].post_decisions) :
           LET more == ComputeMetrics(PAnswer(pd), th[t].S_list, th[t].q_list,
                                      YLabel(pd), th[t].n_samples, th[t].m)
           IN /\ RatLeq(th[t].P_answer, more.p_answer)
              /\ ~RatLeq(more.p_answer, th[t].P_answer)
              /\ th[t].metrics.delta_bar <= more.delta_bar

\* a verdict whose gain is 0 because every skeleton answers at least as often
\* as the full prompt, and which one more ANSWER sample lifts above 0
C20_Witness ==
  /\ Sampled(1) /\ th[1].answers = <<1, 1, 2>>
  /\ th[1].metrics.delta_bar = 0
  /\ \E pd \in OneMoreAnswer(th[1].post_decisions) :
       delta_bar_from_probs(PAnswer(pd), th[1].S_list) > 0

\* what the specification asks the rationale of a computed verdict to report
AuditFields == {"delta_bar", "b2t", "isr", "p_answer", "q_avg", "q_lo", "roh", "decision"}

\* C21: the rationale of every verdict computed by the aligned estimator,
\* evidence-based or closed-book, reports the information gain, B2T, ISR,
\* P_answer, q_avg, q_lo, RoH and the decision.
C21_RationaleComplete ==
  \A t \in ThreadIds :
    (Computed(t) /\ ~UsesPlanner) => AuditFields \subseteq th[t].result.reports

\* C22: on a validator constructed with enable_validation=False every call
\* (a batch call with a non-empty list) returns (True, 0.0,
\* "validation_disabled"), a batch with valid_count = len(items), and sends
\* nothing to the backend; for EDFLValidator and AlignedEDFLValidator alike.
C22_DisabledAlwaysPasses ==
  \A t \in ThreadIds :
    ( /\ ~validator.enable_arg
      /\ th[t].pc # "idle"
      /\ (th[t].entry = "batch" => th[t].items > 0) ) =>
        /\ Done(t)
        /\ th[t].result.kind = "returned"
        /\ th[t].result.accept
        /\ th[t].result.risk = 0
        /\ th[t].result.rationale = "validation_disabled"
        /\ (th[t].entry = "batch" => th[t].result.valid_count = th[t].items)
        /\ th[t].requests = 0

\* the orders in which the samples of one prompt can come back
Reorderings(samples) ==
  { [i \in 1..Len(samples) |-> samples[f[i]]] :
      f \in { g \in [1..Len(samples) -> 1..Len(samples)] :
                \A a \in 1..Len(samples) : \A b \in 1..Len(samples) :
                  g[a] = g[b] => a = b } }
\* the metrics the call would have computed had the full prompt's samples come
\* back in the order pd
Reordered(t, pd) ==
  ComputeMetrics(PAnswer(pd), th[t].S_list, th[t].q_list, YLabel(pd),
                 th[t].n_samples, th[t].m)

\* C23 (as claimed): reordering the n samples of the full prompt or of a
\* skeleton leaves accept, risk_bound and the rationale unchanged.
C23_OrderInsensitive ==
  \A t \in ThreadIds :
    /\ (th[t].pc = "reduce" /\ ~UsesPlanner) =>
         \A cs \in Reorderings(th[t].choices) :
           QkRate(choices_to_decisions(cs)) = QkRate(choices_to_decisions(th[t].choices))
    /\ Sampled(t) =>
         \A pd \in Reorderings(th[t].post_decisions) :
           /\ Reordered(t, pd).will_answer = th[t].result.accept
           /\ Reordered(t, pd).roh = th[t].result.risk
           /\ Rationale(Reordered(t, pd), th[t].closed_book) =
                Rationale(th[t].metrics, th[t].closed_book)

\* C23 (amended): reordering leaves accept, risk_bound and every number the
\* rationale prints unchanged; the rationale of validate_evidence_based also
\* prints y_label, the full prompt's first sample, which follows the order;
\* the rationale of validate_closed_book is unchanged.
C23_OrderInsensitiveButYLabel ==
  \A t \in ThreadIds :
    /\ (th[t].pc = "reduce" /\ ~UsesPlanner) =>
         \A cs \in Reorderings(th[t].choices) :
           QkRate(choices_to_decisions(cs)) = QkRate(choices_to_decisions(th[t].choices))
    /\ Sampled(t) =>
         \A pd \in Reorderings(th[t].post_decisions) :
           /\ Reordered(t, pd).will_answer = th[t].result.accept
           /\ Reordered(t, pd).roh = th[t].result.risk
           /\ \A f \in RationaleFields(th[t].closed_book) \ {"y_label"} :
                Rationale(Reordered(t, pd), th[t].closed_book)[f] =
                  Rationale(th[t].metrics, th[t].closed_book)[f]
           /\ th[t].closed_book =>
                Rationale(Reordered(t, pd), TRUE) = Rationale(th[t].metrics, TRUE)
           /\ Reordered(t, pd).y_label = pd[1]

\* an evidence-based verdict whose full-prompt samples were DECLINE first and
\* ANSWER second: the other order prints another y_label
C23_Witness ==
  /\ Sampled(1) /\ th[1].entry = "evidence"
  /\ th[1].post_decisions = <<"refuse", "answer">>
  /\ th[1].result.reports = RationaleFields(FALSE)
  /\ \E pd \in Reorderings(th[1].post_decisions) :
       Reordered(1, pd).y_label # th[1].metrics.y_label

\* the EDFLValidator holds an AlignedEDFLValidator (use_aligned=True, lines 78-87)
PassThrough == validator.cls = "EDFL" /\ validator.aligned_validator = "set"
\* that AlignedEDFLValidator, as the object a caller would hold
AsAligned(v) ==
  [cls |-> "Aligned", backend |-> v.backend, enable_arg |-> TRUE,
   init_ok |-> v.inner.enable_validation,
   enable_validation |-> v.inner.enable_validation, planner |-> v.inner.planner,
   aligned_validator |-> "unset", inner |-> NoInner]

\* the (n_samples, m) the facade's caller asked for; a batch call names neither
CallerArgs(t) ==
  IF th[t].entry = "batch" THEN <<DefaultN, DefaultM>> ELSE th[t].args

\* C24: an EDFLValidator that holds an aligned validator returns, on each of
\* its three entry points, what that AlignedEDFLValidator returns for the same
\* inputs and completions, and hands it the caller's n_samples and m unchanged.
C24_PassThrough ==
  PassThrough =>
    /\ AsAligned(validator) \in Validators
    /\ \A e \in {"evidence", "closed", "batch"} : \A items \in 0..MaxItems :
         Dispatch(validator, e, items) = Dispatch(AsAligned(validator), e, items)
    /\ \A t \in ThreadIds :
         /\ th[t].pc # "raised"
         /\ (th[t].entry \in {"evidence", "closed"} /\ th[t].pc # "cancelled") =>
              (th[t].n_samples = th[t].args[1] /\ th[t].m = th[t].args[2])
         /\ Done(t) =>
              th[t].result =
                CASE Dispatch(AsAligned(validator), th[t].entry, th[t].items) = "disabled"
                       -> DisabledResult(th[t].entry, th[t].items)
                  [] Dispatch(AsAligned(validator), th[t].entry, th[t].items) = "no_items"
                       -> NoItemsResult
                  [] th[t].metrics.set
                       -> VerdictResult(th[t].entry, th[t].items,
                            ComputeMetrics(th[t].P_answer, th[t].S_list, th[t].q_list,
                                           th[t].y_label, CallerArgs(t)[1], CallerArgs(t)[2]),
                            th[t].closed_book)
                  [] OTHER -> ErrorResult(th[t].entry, th[t].items)

\* a closed-book verdict computed through the facade with the caller's n = 2, m = 1
C24_Witness ==
  /\ PassThrough /\ Computed(1) /\ th[1].entry = "closed"
  /\ th[1].args = <<2, 1>> /\ th[1].requests > 0

\* C25: the _last_detailed_metrics a caller reads right after a call returned
\* are that call's: will_answer is the accept flag just returned and n_samples,
\* m_skeletons are that call's; an earlier call's metrics are never read with a
\* later call's result.
C25_MetricsOfSameCall ==
  \A t \in ThreadIds :
    (th[t].pc = "read" /\ th[t].read.set) =>
      /\ th[t].read = th[t].metrics
      /\ th[t].read.will_answer = th[t].result.accept
      /\ th[t].read.n_samples = th[t].n_samples
      /\ th[t].read.m_skeletons = th[t].m

\* C26: on a validator built with enable_validation=True whose initialisation
\* failed (toolkit import or planner creation raised), every validate_* call on
\* non-empty input returns accept = True with risk_bound 1.0, never 0.0.
C26_InitFailureIsUnverified ==
  \A t \in ThreadIds :
    ( /\ validator.enable_arg /\ ~validator.init_ok
      /\ Done(t)
      /\ (th[t].entry = "batch" => th[t].items > 0) ) =>
        /\ th[t].result.kind = "returned"
        /\ th[t].result.accept
        /\ th[t].result.risk = 1000

\* ------------------------------------------------------------------- C27
\* C27: the list FlightAgent._parse_with_llm returns has the items it extracted, in
\* their order, whether the validator accepted, rejected or raised; a returned
\* verdict is written on every item as edfl_validation (risk bound and accept
\* flag), and nothing is written when the validator raised or was not asked
C27_FlightsNeverBlocked ==
  \A t \in ThreadIds :
    th[t].stage = "returned" =>
      /\ Len(th[t].returned) = Len(th[t].extracted)
      /\ \A i \in 1..Len(th[t].returned) :
           /\ th[t].returned[i].id = th[t].extracted[i]
           /\ th[t].pc = "done" =>
                /\ th[t].returned[i].edfl_validation.risk_of_hallucination
                     = th[t].result.risk
                /\ th[t].returned[i].edfl_validation.validation_passed
                     = th[t].result.accept
           /\ th[t].pc # "done" => th[t].returned[i].edfl_validation = NoValidation

\* two flights, extracted in the order 2, 1, were rejected by the validator and
\* returned
C27_Witness ==
  \E t \in ThreadIds :
    /\ th[t].stage = "returned"
    /\ th[t].extracted = <<2, 1>>
    /\ th[t].pc = "done"
    /\ th[t].result.rationale = "computed"
    /\ ~th[t].result.accept
    /\ Len(th[t].returned) = 2

\* ------------------------------------------------------------------- C28
\* C28: chat_create leaves bedrock_llm.max_tokens as it found it: whenever no
\* chat_create is between its override and its restore, max_tokens holds the
\* value from before the calls, and the request of a call that overrides carries
\* the override
C28_MaxTokensFrame ==
  /\ (\A t \in threads : th[t].pc \notin {"_call", "restore"}) =>
       max_tokens = ProxyMaxTokens
  /\ \A t \in threads :
       th[t].pc = "restore" => th[t].payload_max_tokens = DecisionMaxTokens

\* ------------------------------------------------------------------- C29
\* the order in which one run visits the nodes
PipelineOrder ==
  <<"interface", "flights", "hotels", "budget", "activities", "ranking",
    "itinerary", "audit">>
\* the name a node's agent goes by in completed_agents
AgentOf(node) ==
  CASE node = "flights" -> "flight" [] node = "hotels" -> "hotel" [] OTHER -> node

C30_PlanningOnlyWhenComplete ==
  LET intent == run.state.travel_intent
      complete == /\ intent.present /\ intent.budget /\ intent.timeframe
                  /\ intent.locations /\ intent.interests
  IN /\ (Len(run.ran) > 1 \/ run.pc \in {"flights", "hotels", "budget", "activities",
                                          "ranking", "itinerary", "audit"})
          => complete
     /\ (run.pc = "END" /\ ~complete) =>
          /\ run.ran = <<"interface">>
          /\ run.state.needs_user_input

====
